---- MODULE Spec2Model ----
(***************************************************************************)
(* The explicit-free-list allocator template (allocator.cpp) on top of the *)
(* brk-style arena of memlib.cpp, as the code in the repository stands.    *)
(*                                                                         *)
(* allocator.cpp is a template: the bodies of mm_init, mm_malloc, mm_free, *)
(* extend_heap, coalesce, find_fit, place, add_to_free_list,               *)
(* remove_from_free_list and mm_check hold only TODO comments and a final  *)
(* return statement.  The model translates the statements that execute:    *)
(* the "Hint:" lines are comments and are not part of the program.         *)
(* mm_realloc and all of memlib.cpp are complete and are translated whole. *)
(*                                                                         *)
(* Addresses are integers.  The arena is mem_heap .. mem_heap + MAX_HEAP;  *)
(* its content is tracked for the first MemWords 4-byte words, the four   *)
(* words of the initial layout (pad, prologue, epilogue).                   *)
(***************************************************************************)
EXTENDS Integers, Sequences, FiniteSets, TLC

\* ------------------------------------------------------------------------
\* Program constants
\* ------------------------------------------------------------------------

WSIZE == 4
DSIZE == 8
CHUNKSIZE == 4096
PTR_SIZE == 8
MIN_BLOCK_SIZE == DSIZE + 2 * PTR_SIZE
MAX_HEAP == 8 * 1024 * 1024

\* nullptr, and the (void *)-1 that mem_sbrk returns on failure
NULL == 0
SBRK_FAIL == -1

\* ------------------------------------------------------------------------
\* Bounds of the model
\* ------------------------------------------------------------------------

\* number of arena words whose content is tracked
MemWords == 4
\* number of direct mem_sbrk calls between two mem_init calls
MaxSbrk == 3

\* largest request size the adjusted-size formulas are applied to
MaxReq == 4200
\* bits of a size_t the mask ~7 is kept to (sizes stay below 2^MaskBits)
MaskBits == 24

\* addresses malloc(MAX_HEAP) may hand to mem_init (16-byte aligned)
HeapBases == {4096, 65536}
\* values an uninitialised arena word may hold
UninitWords == {0, 9}
\* increments passed to mem_sbrk
SbrkIncrs == {-1, 0, 4 * WSIZE, CHUNKSIZE, MAX_HEAP \div 2, MAX_HEAP}
\* sizes passed to mm_malloc and mm_realloc
Sizes == {0, 1, 8, 9, 64, 1024 * 1024, 4 * 1024 * 1024}

\* ------------------------------------------------------------------------
\* State
\* ------------------------------------------------------------------------

VARIABLES
    live,          \* the arena is allocated: between mem_init and mem_deinit
    mem_heap,      \* memlib.cpp: first byte of the arena
    mem_brk,       \* memlib.cpp: last byte of the heap plus 1
    mem_max_addr,  \* memlib.cpp: max legal heap address plus 1
    mem,           \* content of the tracked arena words, by word index
    heap_listp,    \* allocator.cpp: prologue payload pointer
    free_listp,    \* allocator.cpp: head of the free list
    nsbrk,         \* direct mem_sbrk calls since mem_init
    op,            \* the last public operation called
    args,          \* its arguments
    ret,           \* its return value (NULL for a void function)
    scen           \* the return values of the coalescing scenario followed so far

vars == <<live, mem_heap, mem_brk, mem_max_addr, mem, heap_listp, free_listp,
          nsbrk, op, args, ret, scen>>

\* The state the C functions read and write, as one value.
Prog ==
    [mem_heap |-> mem_heap, mem_brk |-> mem_brk, mem_max_addr |-> mem_max_addr,
     mem |-> mem, heap_listp |-> heap_listp, free_listp |-> free_listp]

Install(s) ==
    /\ mem_heap' = s.mem_heap
    /\ mem_brk' = s.mem_brk
    /\ mem_max_addr' = s.mem_max_addr
    /\ mem' = s.mem
    /\ heap_listp' = s.heap_listp
    /\ free_listp' = s.free_listp

Min(a, b) == IF a < b THEN a ELSE b
Max(a, b) == IF a > b THEN a ELSE b

RECURSIVE Pow256(_)
Pow256(k) == IF k = 0 THEN 1 ELSE 256 * Pow256(k - 1)

\* ------------------------------------------------------------------------
\* memlib.cpp
\* ------------------------------------------------------------------------

\* a mem_sbrk that lacks the incr < 0 test
mem_sbrk_nosign(s, incr) ==
    IF s.mem_brk + incr > s.mem_max_addr
    THEN [s |-> s, r |-> SBRK_FAIL]
    ELSE [s |-> [s EXCEPT !.mem_brk = @ + incr], r |-> s.mem_brk]

mem_sbrk(s, incr) ==
    IF incr < 0 \/ s.mem_brk + incr > s.mem_max_addr
    THEN [s |-> s, r |-> SBRK_FAIL]
    ELSE [s |-> [s EXCEPT !.mem_brk = @ + incr], r |-> s.mem_brk]

mem_heap_lo(s) == s.mem_heap

mem_heap_hi(s) == s.mem_brk - 1

mem_heapsize(s) == s.mem_brk - s.mem_heap

\* ------------------------------------------------------------------------
\* allocator.cpp: macros
\* ------------------------------------------------------------------------

\* size | alloc, for a size that is a multiple of 8 and alloc in {0, 1}
PACK(size, alloc) == size + alloc

Tracked(s, p) ==
    /\ p >= s.mem_heap
    /\ p < s.mem_heap + WSIZE * MemWords
    /\ (p - s.mem_heap) % WSIZE = 0

WordIdx(s, p) == (p - s.mem_heap) \div WSIZE

\* the word at address p; a word outside the tracked window reads as 0
GET(s, p) == IF Tracked(s, p) THEN s.mem[WordIdx(s, p)] ELSE 0

PUT(s, p, val) ==
    IF Tracked(s, p) THEN [s EXCEPT !.mem[WordIdx(s, p)] = val] ELSE s

GET_SIZE(s, p) == GET(s, p) - (GET(s, p) % 8)

GET_ALLOC(s, p) == GET(s, p) % 2

HDRP(bp) == bp - WSIZE

FTRP(s, bp) == bp + GET_SIZE(s, HDRP(bp)) - DSIZE

NEXT_BLKP(s, bp) == bp + GET_SIZE(s, HDRP(bp))

PREV_BLKP(s, bp) == bp - GET_SIZE(s, bp - DSIZE)

\* memcpy(dst, src, n) on little-endian words; dst and src word aligned
memcpy(s, dst, src, n) ==
    [s EXCEPT !.mem =
        [i \in DOMAIN s.mem |->
            LET off == (s.mem_heap + WSIZE * i) - dst
                k   == Min(WSIZE, n - off)
                w   == GET(s, src + off)
            IN  IF off >= 0 /\ off < n
                THEN (w % Pow256(k)) + (s.mem[i] \div Pow256(k)) * Pow256(k)
                ELSE s.mem[i]]]

\* ------------------------------------------------------------------------
\* allocator.cpp: helper functions (bodies as they stand)
\* ------------------------------------------------------------------------

extend_heap(s, words) == [s |-> s, r |-> NULL]

coalesce(s, bp) == [s |-> s, r |-> bp]

find_fit(s, asize) == NULL

place(s, bp, asize) == s

add_to_free_list(s, bp) == s

remove_from_free_list(s, bp) == s

\* ------------------------------------------------------------------------
\* allocator.cpp: public functions
\* ------------------------------------------------------------------------

mm_init(s) == [s |-> s, r |-> -1]

\* a mm_malloc that lacks the zero-size check and grows the arena by one chunk
mm_malloc_nozero(s, size) ==
    LET e == mem_sbrk(s, CHUNKSIZE)
    IN  [s |-> e.s, r |-> IF e.r = SBRK_FAIL THEN NULL ELSE e.r]

mm_malloc(s, size) == [s |-> s, r |-> NULL]

\* a mm_free without the nullptr guard: it clears the alloc bit of the header
\* and footer it finds; for nullptr the stray write is taken to land on the
\* first word of the arena
mm_free_noguard(s, ptr) ==
    LET bp   == IF ptr = NULL THEN s.mem_heap + WSIZE ELSE ptr
        size == GET_SIZE(s, HDRP(bp))
    IN  PUT(PUT(s, HDRP(bp), PACK(size, 0)), FTRP(s, bp), PACK(size, 0))

mm_free(s, ptr) == s

\* a mm_realloc whose size == 0 branch frees ptr and then returns ptr instead
\* of nullptr
mm_realloc_keep(s, ptr, size) ==
    IF ptr = NULL THEN mm_malloc(s, size)
    ELSE IF size = 0 THEN [s |-> mm_free(s, ptr), r |-> ptr]
    ELSE LET m == mm_malloc(s, size)
             newptr == m.r
             payload == GET_SIZE(m.s, HDRP(ptr)) - DSIZE
             copy_size == IF size < payload THEN size ELSE payload
         IN  IF newptr = NULL THEN [s |-> m.s, r |-> NULL]
             ELSE [s |-> mm_free(memcpy(m.s, newptr, ptr, copy_size), ptr),
                   r |-> newptr]

\* a mm_realloc that releases the old block before it asks for the new one:
\* the header and footer of ptr are marked free whether or not mm_malloc succeeds
mm_realloc_freefirst(s, ptr, size) ==
    IF ptr = NULL THEN mm_malloc(s, size)
    ELSE IF size = 0 THEN [s |-> mm_free(s, ptr), r |-> NULL]
    ELSE LET f == mm_free_noguard(s, ptr)
             m == mm_malloc(f, size)
         IN  [s |-> m.s, r |-> m.r]

mm_realloc(s, ptr, size) ==
    IF ptr = NULL THEN mm_malloc(s, size)
    ELSE IF size = 0 THEN [s |-> mm_free(s, ptr), r |-> NULL]
    ELSE LET m == mm_malloc(s, size)
             newptr == m.r
             payload == GET_SIZE(m.s, HDRP(ptr)) - DSIZE
             copy_size == IF size < payload THEN size ELSE payload
         IN  IF newptr = NULL THEN [s |-> m.s, r |-> NULL]
             ELSE [s |-> mm_free(memcpy(m.s, newptr, ptr, copy_size), ptr),
                   r |-> newptr]

mm_check(s) == [s |-> s, r |-> 0]

\* ------------------------------------------------------------------------
\* Initial state and actions
\* ------------------------------------------------------------------------

\* pointers a caller passes to mm_free and mm_realloc: mm_malloc has returned
\* none, so nullptr, and one arena address for the non-null branches
Ptrs == {NULL, mem_heap + DSIZE}

\* The coalescing scenario of the final tests (scenario 9 of the specification):
\* mem_init; mm_init; a = mm_malloc(64); b = mm_malloc(64); mm_free(a);
\* mm_free(b).  sc holds the return values of the calls of the scenario made
\* so far; a call that is not the scenario's next one starts over.
Follow(sc, o, a, r) ==
    IF \/ Len(sc) = 1 /\ o = "mm_init"
       \/ Len(sc) \in {2, 3} /\ o = "mm_malloc" /\ a = <<64>>
       \/ Len(sc) = 4 /\ o = "mm_free" /\ a = <<sc[3]>>
       \/ Len(sc) = 5 /\ o = "mm_free" /\ a = <<sc[4]>>
    THEN Append(sc, r)
    ELSE IF o = "mem_init" THEN <<r>> ELSE <<>>

Track == scen' = Follow(scen, op', args', ret')

Init ==
    /\ live = FALSE
    /\ mem_heap = NULL
    /\ mem_brk = NULL
    /\ mem_max_addr = NULL
    /\ mem = [i \in 0 .. MemWords - 1 |-> 0]
    /\ heap_listp = NULL
    /\ free_listp = NULL
    /\ nsbrk = 0
    /\ op = "start"
    /\ args = <<>>
    /\ ret = NULL
    /\ scen = <<>>

\* mem_init; the case where malloc(MAX_HEAP) fails ends the process (exit(1))
MemInit ==
    /\ ~live
    /\ \E base \in HeapBases, m \in [0 .. MemWords - 1 -> UninitWords] :
        /\ mem_heap' = base
        /\ mem_brk' = base
        /\ mem_max_addr' = base + MAX_HEAP
        /\ mem' = m
    /\ live' = TRUE
    /\ nsbrk' = 0
    /\ op' = "mem_init" /\ args' = <<>> /\ ret' = NULL
    /\ UNCHANGED <<heap_listp, free_listp>>
    /\ Track

MemDeinit ==
    /\ live \/ mem_heap = NULL
    /\ live' = FALSE
    /\ op' = "mem_deinit" /\ args' = <<>> /\ ret' = NULL
    /\ UNCHANGED <<mem_heap, mem_brk, mem_max_addr, mem, heap_listp,
                   free_listp, nsbrk>>
    /\ Track

MemSbrk ==
    /\ live
    /\ nsbrk < MaxSbrk
    /\ \E incr \in SbrkIncrs :
        LET c == mem_sbrk(Prog, incr)
        IN  Install(c.s) /\ ret' = c.r /\ args' = <<incr>>
    /\ nsbrk' = nsbrk + 1
    /\ op' = "mem_sbrk"
    /\ UNCHANGED live
    /\ Track

MmInit ==
    /\ live
    /\ LET c == mm_init(Prog) IN Install(c.s) /\ ret' = c.r
    /\ op' = "mm_init" /\ args' = <<>>
    /\ UNCHANGED <<live, nsbrk>>
    /\ Track

MmMalloc ==
    /\ live
    /\ \E size \in Sizes :
        LET c == mm_malloc(Prog, size)
        IN  Install(c.s) /\ ret' = c.r /\ args' = <<size>>
    /\ op' = "mm_malloc"
    /\ UNCHANGED <<live, nsbrk>>
    /\ Track

MmFree ==
    /\ live
    /\ \E ptr \in Ptrs :
        Install(mm_free(Prog, ptr)) /\ args' = <<ptr>>
    /\ op' = "mm_free" /\ ret' = NULL
    /\ UNCHANGED <<live, nsbrk>>
    /\ Track

MmRealloc ==
    /\ live
    /\ \E ptr \in Ptrs, size \in Sizes :
        LET c == mm_realloc(Prog, ptr, size)
        IN  Install(c.s) /\ ret' = c.r /\ args' = <<ptr, size>>
    /\ op' = "mm_realloc"
    /\ UNCHANGED <<live, nsbrk>>
    /\ Track

MmCheck ==
    /\ live
    /\ LET c == mm_check(Prog) IN Install(c.s) /\ ret' = c.r
    /\ op' = "mm_check" /\ args' = <<>>
    /\ UNCHANGED <<live, nsbrk>>
    /\ Track

Next ==
    \/ MemInit
    \/ MemDeinit
    \/ MemSbrk
    \/ MmInit
    \/ MmMalloc
    \/ MmFree
    \/ MmRealloc
    \/ MmCheck

Spec == Init /\ [][Next]_vars

\* ------------------------------------------------------------------------
\* The adjusted block size, as the repository writes it
\* ------------------------------------------------------------------------

\* a & b on non-negative integers
RECURSIVE BitAnd(_, _)
BitAnd(a, b) ==
    IF a = 0 \/ b = 0 THEN 0
    ELSE (a % 2) * (b % 2) + 2 * BitAnd(a \div 2, b \div 2)

\* ~7 as a size_t, its low MaskBits bits
Not7 == 2 ^ MaskBits - 1 - 7

\* a rounding that leaves out the 8 bytes of header and footer
asize_nooverhead(size) ==
    IF size <= 8 THEN 16 ELSE BitAnd(size + 7, Not7)

\* the README's mm_malloc: (size <= 8) ? 16 : ((size + 15) & ~7)
asize_readme(size) ==
    IF size <= 8 THEN 16 ELSE BitAnd(size + 15, Not7)

\* the steps written in allocator.cpp for mm_malloc:
\* if size <= DSIZE: 2 * DSIZE, else DSIZE * ((size + DSIZE + DSIZE-1) / DSIZE)
asize_hint(size) ==
    IF size <= DSIZE THEN 2 * DSIZE
    ELSE DSIZE * ((size + DSIZE + (DSIZE - 1)) \div DSIZE)

\* a request of size bytes, 1 <= size <= MaxReq, not yet adjusted
SizeInit ==
    /\ live = FALSE
    /\ mem_heap = NULL
    /\ mem_brk = NULL
    /\ mem_max_addr = NULL
    /\ mem = [i \in 0 .. MemWords - 1 |-> 0]
    /\ heap_listp = NULL
    /\ free_listp = NULL
    /\ nsbrk = 0
    /\ op = "request"
    /\ args \in {<<size>> : size \in 1 .. MaxReq}
    /\ ret = NULL
    /\ scen = <<>>

AdjustReadme ==
    /\ op = "request"
    /\ op' = "asize_readme"
    /\ ret' = asize_readme(args[1])
    /\ UNCHANGED <<live, mem_heap, mem_brk, mem_max_addr, mem, heap_listp,
                   free_listp, nsbrk, args, scen>>

AdjustHint ==
    /\ op = "request"
    /\ op' = "asize_hint"
    /\ ret' = asize_hint(args[1])
    /\ UNCHANGED <<live, mem_heap, mem_brk, mem_max_addr, mem, heap_listp,
                   free_listp, nsbrk, args, scen>>

SizeNext ==
    \/ AdjustReadme
    \/ AdjustHint

SizeSpec == SizeInit /\ [][SizeNext]_vars

\* ------------------------------------------------------------------------
\* Facts about the template as it stands
\* ------------------------------------------------------------------------

\* mm_malloc and mm_realloc have never returned a pointer
NoPointerReturned == op \in {"mm_malloc", "mm_realloc"} => ret = NULL

\* no prologue has been written and no block has entered the free list
NoHeapFormatted == heap_listp = NULL /\ free_listp = NULL

\* no allocator function moves the break or writes a word of the arena
AllocatorWritesNothing ==
    [][op' \in {"mm_init", "mm_malloc", "mm_free", "mm_realloc", "mm_check"}
        => mem' = mem /\ mem_brk' = mem_brk]_vars

\* ------------------------------------------------------------------------
\* Claims
\* ------------------------------------------------------------------------

\* section 4.1 of the specification (the comment at allocator.cpp:203-204):
\* the block size a request of size bytes is adjusted to
adjust(size) ==
    IF size = 0 THEN 0
    ELSE IF size <= DSIZE THEN 2 * DSIZE
    ELSE DSIZE * ((size + DSIZE + (DSIZE - 1)) \div DSIZE)

\* C1: mm_init called right after mem_init (heap size 0, 8 MiB of capacity)
\* returns 0, and mm_init returns -1 only when the arena cannot take its two
\* extensions, the 16-byte one and the CHUNKSIZE one.
C1_InitSucceeds ==
    [][op' = "mm_init" =>
        /\ (op = "mem_init" => ret' = 0)
        /\ (ret' = -1 => mem_brk + 4 * WSIZE + CHUNKSIZE > mem_max_addr)]_vars

\* C2: mm_malloc(n) with n > 0, called right after mm_init while the arena can
\* still grow by max(adjust(n), CHUNKSIZE) bytes, returns a non-null pointer;
\* this covers a first malloc of 8 bytes, of 1 MiB and of 4 MiB.
C2_MallocSucceeds ==
    [][(/\ op = "mm_init"
        /\ op' = "mm_malloc"
        /\ args'[1] > 0
        /\ mem_brk + Max(adjust(args'[1]), CHUNKSIZE) <= mem_max_addr)
        => ret' # NULL]_vars

\* C3: mm_malloc(0) returns null and leaves the arena break, every word of
\* the arena (so every header and footer) and the free list unchanged.
C3_MallocZeroNoEffect ==
    [][(op' = "mm_malloc" /\ args' = <<0>>) =>
        /\ ret' = NULL
        /\ mem_brk' = mem_brk
        /\ mem' = mem
        /\ heap_listp' = heap_listp
        /\ free_listp' = free_listp]_vars

\* mm_malloc(0) has been called on an arena that holds bytes
C3_Witness ==
    /\ live
    /\ op = "mm_malloc" /\ args = <<0>> /\ ret = NULL
    /\ mem_brk > mem_heap

\* ------------------------------------------------------------------------
\* The heap as the documented layout reads it (section 3 of the specification)
\* ------------------------------------------------------------------------

\* blocks a heap walk visits before it gives up
MaxBlocks == 3

\* the mm_init that has room for its two extensions: the 16 bytes of the
\* initial layout and the first CHUNKSIZE block
InitHasRoom == mem_brk + 4 * WSIZE + CHUNKSIZE <= mem_max_addr

\* payload pointers of the blocks from bp up to the first header of size 0
RECURSIVE Walk(_, _, _)
Walk(s, bp, fuel) ==
    IF fuel = 0 \/ HDRP(bp) >= s.mem_brk \/ GET_SIZE(s, HDRP(bp)) = 0
    THEN <<>>
    ELSE <<bp>> \o Walk(s, NEXT_BLKP(s, bp), fuel - 1)

\* the real blocks: those after the prologue
Blocks(s) == Walk(s, NEXT_BLKP(s, s.heap_listp), MaxBlocks)

RECURSIVE SumSizes(_, _)
SumSizes(s, bs) ==
    IF bs = <<>> THEN 0
    ELSE GET_SIZE(s, HDRP(Head(bs))) + SumSizes(s, Tail(bs))

\* prologue header and footer hold (8 | 1); the last word of the arena is the
\* epilogue header (0 | 1)
Sentinels(s) ==
    /\ s.heap_listp # NULL
    /\ GET(s, HDRP(s.heap_listp)) = PACK(DSIZE, 1)
    /\ GET(s, FTRP(s, s.heap_listp)) = PACK(DSIZE, 1)
    /\ mem_heapsize(s) >= 4 * WSIZE
    /\ Tracked(s, mem_heap_hi(s) - (WSIZE - 1))
        => GET(s, mem_heap_hi(s) - (WSIZE - 1)) = PACK(0, 1)

\* the walk from the prologue ends on the last word of the arena, and the
\* pad, the prologue, the blocks and the epilogue header add up to the arena
Tiles(s) ==
    /\ s.heap_listp # NULL
    /\ GET_SIZE(s, HDRP(s.heap_listp)) = DSIZE
    /\ LET bs == Blocks(s)
           end == NEXT_BLKP(s, s.heap_listp) + SumSizes(s, bs)
       IN  /\ \A i \in 1 .. Len(bs) : GET_SIZE(s, HDRP(bs[i])) % DSIZE = 0
           /\ HDRP(end) = s.mem_brk - WSIZE
           /\ 4 * WSIZE + SumSizes(s, bs) = mem_heapsize(s)

\* header = footer where both words are tracked; no two adjacent free blocks
BlocksOK(s) ==
    LET bs == Blocks(s)
    IN  /\ \A i \in 1 .. Len(bs) :
            (Tracked(s, HDRP(bs[i])) /\ Tracked(s, FTRP(s, bs[i])))
                => GET(s, HDRP(bs[i])) = GET(s, FTRP(s, bs[i]))
        /\ \A i \in 1 .. Len(bs) - 1 :
            ~(GET_ALLOC(s, HDRP(bs[i])) = 0 /\ GET_ALLOC(s, HDRP(bs[i + 1])) = 0)

\* the free-list head is null exactly when the walk meets no free block, and
\* otherwise is one of the free blocks
FreeHeadOK(s) ==
    LET bs == Blocks(s)
        free == {bs[i] : i \in {j \in 1 .. Len(bs) : GET_ALLOC(s, HDRP(bs[j])) = 0}}
    IN  IF free = {} THEN s.free_listp = NULL ELSE s.free_listp \in free

\* conditions every heap that satisfies the documented invariants meets
HeapConsistent(s) == Sentinels(s) /\ Tiles(s) /\ BlocksOK(s) /\ FreeHeadOK(s)

\* C11: after the mm_init that has room for its extensions, walking from the
\* prologue by header sizes reaches the epilogue header exactly, every size
\* met is a multiple of 8, and 16 plus the sizes of the real blocks is
\* mem_heapsize(); malloc, free and realloc keep it so.
C11_BlocksTileArena ==
    [][/\ (op' = "mm_init" /\ InitHasRoom) => Tiles(Prog')
       /\ (op' \in {"mm_malloc", "mm_free", "mm_realloc"} /\ Tiles(Prog))
            => Tiles(Prog')]_vars

\* C12: after the mm_init that has room for its extensions, the prologue
\* header and footer hold (8 | 1) and the last 4 bytes of the arena hold the
\* epilogue header (0 | 1); malloc, free and realloc keep the sentinels.
C12_SentinelsInPlace ==
    [][/\ (op' = "mm_init" /\ InitHasRoom) => Sentinels(Prog')
       /\ (op' \in {"mm_malloc", "mm_free", "mm_realloc"} /\ Sentinels(Prog))
            => Sentinels(Prog')]_vars

\* C15: mm_realloc(nullptr, n) returns what mm_malloc(n) returns and leaves
\* the state mm_malloc(n) leaves; mm_realloc(p, 0) with p non-null returns
\* null and leaves the state mm_free(p) leaves.
C15_ReallocDispatch ==
    [][op' = "mm_realloc" =>
        /\ args'[1] = NULL =>
            /\ ret' = mm_malloc(Prog, args'[2]).r
            /\ Prog' = mm_malloc(Prog, args'[2]).s
        /\ (args'[1] # NULL /\ args'[2] = 0) =>
            /\ ret' = NULL
            /\ Prog' = mm_free(Prog, args'[1])]_vars

\* mm_realloc(p, 0) has been called with a non-null p on a non-empty arena
C15_Witness ==
    /\ live
    /\ op = "mm_realloc" /\ args[1] # NULL /\ args[2] = 0 /\ ret = NULL
    /\ mem_brk > mem_heap

\* C16: mm_free(nullptr) changes neither the arena break, nor a word of the
\* arena (so no header or footer), nor the free list.
C16_FreeNullNoEffect ==
    [][(op' = "mm_free" /\ args' = <<NULL>>) =>
        /\ mem_brk' = mem_brk
        /\ mem' = mem
        /\ heap_listp' = heap_listp
        /\ free_listp' = free_listp]_vars

\* mm_free(nullptr) has been called on an arena whose first word is not 0
C16_Witness ==
    /\ live
    /\ op = "mm_free" /\ args = <<NULL>>
    /\ mem_brk > mem_heap
    /\ mem[0] # 0

\* C19: at the end of the scenario mem_init; mm_init; a = mm_malloc(64);
\* b = mm_malloc(64); mm_free(a); mm_free(b), exactly one block lies between
\* prologue and epilogue, it is free, its size is the whole 4096-byte region,
\* the free-list head points to it and it contains the address b just freed.
C19_ScenarioMerged ==
    Len(scen) = 6 =>
        /\ free_listp # NULL
        /\ Blocks(Prog) = <<free_listp>>
        /\ GET_SIZE(Prog, HDRP(free_listp)) = CHUNKSIZE
        /\ GET_ALLOC(Prog, HDRP(free_listp)) = 0
        /\ free_listp <= scen[4] /\ scen[4] < free_listp + CHUNKSIZE

\* C20: mm_check, called right after mm_init, returns nonzero when the heap
\* fails one of the documented invariants (sentinels in place, tiling within
\* the arena, header = footer, no adjacent free blocks, free-list head among
\* the free blocks).
C20_CheckDetects ==
    [][(op = "mm_init" /\ op' = "mm_check" /\ ~HeapConsistent(Prog))
        => ret' # 0]_vars

\* C21: mem_sbrk(incr) with incr >= 0 and heap size + incr <= MAX_HEAP moves
\* the break up by exactly incr and returns the old break; with incr < 0 or
\* heap size + incr > MAX_HEAP it returns (void *)-1 and leaves the break
\* where it was.  No call but mem_init makes the heap smaller, the heap never
\* exceeds MAX_HEAP, and mem_heap_hi() = mem_heap_lo() + mem_heapsize() - 1.
C21_SbrkContract ==
    [][/\ op' = "mem_sbrk" =>
            IF args'[1] >= 0 /\ mem_heapsize(Prog) + args'[1] <= MAX_HEAP
            THEN mem_brk' = mem_brk + args'[1] /\ ret' = mem_brk
            ELSE mem_brk' = mem_brk /\ ret' = SBRK_FAIL
       /\ op' # "mem_init" => mem_heapsize(Prog') >= mem_heapsize(Prog)
       /\ mem_heapsize(Prog') >= 0
       /\ mem_heapsize(Prog') <= MAX_HEAP
       /\ mem_heap_hi(Prog') = mem_heap_lo(Prog') + mem_heapsize(Prog') - 1]_vars

\* mem_sbrk has refused a positive increment on a heap grown to exactly
\* MAX_HEAP by earlier calls
C21_Witness ==
    /\ live
    /\ op = "mem_sbrk" /\ args[1] > 0 /\ ret = SBRK_FAIL
    /\ mem_heapsize(Prog) = MAX_HEAP

C29_ReallocFailKeeps ==
    [][(/\ op' = "mm_realloc"
        /\ args'[1] # NULL
        /\ args'[2] > 0
        /\ mm_malloc(Prog, args'[2]).r = NULL)
        => /\ ret' = NULL
           /\ mem' = mem
           /\ mem_brk' = mem_brk
           /\ heap_listp' = heap_listp
           /\ free_listp' = free_listp]_vars

\* mm_realloc(p, n), n > 0, has returned null for a p that lies in the arena
\* and whose header word has the allocated bit set
C29_Witness ==
    /\ live
    /\ op = "mm_realloc" /\ args[1] # NULL /\ args[2] > 0 /\ ret = NULL
    /\ mem_heapsize(Prog) >= 4 * WSIZE
    /\ GET_ALLOC(Prog, HDRP(args[1])) = 1

====
